---- MODULE Spec2Model ----
\* A model of the rust-state-machine runtime: the system, balances and
\* proof-of-existence pallets, the Runtime's call routing, and block execution.
EXTENDS Integers, Sequences, FiniteSets, TLC

\* ---------------------------------------------------------------- bounds

\* The accounts and contents the blocks are built from (main.rs names them).
Accounts == {"alice", "bob"}
Contents == {"Hello, world!"}

\* Stand-in for the largest value of types::Balance (u128::MAX), scaled down.
BalanceMax == 127
\* The amounts of the transfers, and the balances set_balance seeds.
Amounts == {1, BalanceMax - 1}
Seeds == {BalanceMax}
\* The submitted blocks together carry at most MaxExtrinsics extrinsics.
MaxExtrinsics == 2
\* At most MaxBlocks calls of execute_block are made.
MaxBlocks == 2

\* ---------------------------------------------------------------- maps

\* BTreeMap::new()
EmptyMap == [x \in {} |-> 0]

\* BTreeMap::insert
Insert(m, k, v) == [x \in (DOMAIN m) \cup {k} |-> IF x = k THEN v ELSE m[x]]

\* BTreeMap::remove
Remove(m, k) == [x \in (DOMAIN m) \ {k} |-> m[x]]

\* ---------------------------------------------------------------- results

\* support::DispatchResult: Ok(()) or Err(&'static str)
Ok == "Ok"

\* ---------------------------------------------------------------- system pallet

\* system::Pallet::new()
system_new == [block_number |-> 0, nonce |-> EmptyMap]

\* system::Pallet::block_number
block_number(sys) == sys.block_number

\* system::Pallet::inc_block_number
inc_block_number(sys) == [sys EXCEPT !.block_number = @ + 1]

\* system::Pallet::nonce: the stored nonce, 0 for an unseen account
nonce(sys, who) == IF who \in DOMAIN sys.nonce THEN sys.nonce[who] ELSE 0

\* system::Pallet::inc_nonce
inc_nonce(sys, who) == [sys EXCEPT !.nonce = Insert(@, who, nonce(sys, who) + 1)]

\* ---------------------------------------------------------------- balances pallet

\* The errors of balances::Pallet::transfer
InsufficientBalance == "InsufficientBalance"
Overflow == "Overflow"

\* balances::Pallet::new()
balances_new == [balances |-> EmptyMap]

\* balances::Pallet::balance: the stored balance, 0 for an unseen account
balance(bal, who) == IF who \in DOMAIN bal.balances THEN bal.balances[who] ELSE 0

\* balances::Pallet::set_balance
set_balance(bal, who, amount) == [bal EXCEPT !.balances = Insert(@, who, amount)]

\* transfer crediting the receiver without debiting the caller.
transfer_no_debit(bal, caller, to, amount) ==
    IF balance(bal, caller) < amount
    THEN [res |-> InsufficientBalance, pallet |-> bal]
    ELSE IF balance(bal, to) + amount > BalanceMax
         THEN [res |-> Overflow, pallet |-> bal]
         ELSE [res |-> Ok, pallet |-> set_balance(bal, to, balance(bal, to) + amount)]

\* transfer with both new balances computed from the balances read at entry,
\* and written caller first.
transfer_reads_at_entry(bal, caller, to, amount) ==
    IF balance(bal, caller) < amount
    THEN [res |-> InsufficientBalance, pallet |-> bal]
    ELSE IF balance(bal, to) + amount > BalanceMax
         THEN [res |-> Overflow, pallet |-> bal]
         ELSE [res |-> Ok,
               pallet |-> set_balance(
                              set_balance(bal, caller, balance(bal, caller) - amount),
                              to, balance(bal, to) + amount)]

\* transfer writing the debit before it checks the credit for overflow.
transfer_debits_before_check(bal, caller, to, amount) ==
    IF balance(bal, caller) < amount
    THEN [res |-> InsufficientBalance, pallet |-> bal]
    ELSE LET debited == set_balance(bal, caller, balance(bal, caller) - amount)
         IN  IF balance(debited, to) + amount > BalanceMax
             THEN [res |-> Overflow, pallet |-> debited]
             ELSE [res |-> Ok,
                   pallet |-> set_balance(debited, to, balance(debited, to) + amount)]

\* balances::Pallet::transfer: fails with InsufficientBalance when the caller's
\* balance is below the amount, with Overflow when the credit would pass the
\* largest balance, and then mutates nothing; otherwise debits the caller and
\* credits the receiver. The credit is applied to the balance the debit left,
\* which for a receiver other than the caller is its balance at entry, and for
\* the caller itself makes debit and credit cancel.
transfer(bal, caller, to, amount) ==
    IF balance(bal, caller) < amount
    THEN [res |-> InsufficientBalance, pallet |-> bal]
    ELSE LET debited == set_balance(bal, caller, balance(bal, caller) - amount)
         IN  IF balance(debited, to) + amount > BalanceMax
             THEN [res |-> Overflow, pallet |-> bal]
             ELSE [res |-> Ok,
                   pallet |-> set_balance(debited, to, balance(debited, to) + amount)]

\* balances::Call -> balances::Pallet (the routing #[macros::call] generates)
balances_dispatch(bal, caller, call) ==
    transfer(bal, caller, call.to, call.amount)

\* ---------------------------------------------------------------- proof of existence

\* The errors of create_claim and revoke_claim (the spec's AlreadyClaimed,
\* ClaimNotFound and NotClaimOwner), as the messages the code returns
AlreadyClaimed == "this content is already claimed"
ClaimNotFound == "claim does not exist"
NotClaimOwner == "This content is owned by another account"

\* proof_of_existence::Pallet::new()
poe_new == [claims |-> EmptyMap]

\* Option::None
None == "None"

\* proof_of_existence::Pallet::get_claim
get_claim(poe, claim) == IF claim \in DOMAIN poe.claims THEN poe.claims[claim] ELSE None

\* create_claim writing the owner before it looks whether the content is claimed.
create_claim_inserts_first(poe, caller, claim) ==
    [res    |-> IF claim \in DOMAIN poe.claims THEN AlreadyClaimed ELSE Ok,
     pallet |-> [poe EXCEPT !.claims = Insert(@, claim, caller)]]

\* create_claim refusing only the content another account owns.
create_claim_owner_may_reclaim(poe, caller, claim) ==
    IF claim \in DOMAIN poe.claims /\ poe.claims[claim] # caller
    THEN [res |-> AlreadyClaimed, pallet |-> poe]
    ELSE [res |-> Ok, pallet |-> [poe EXCEPT !.claims = Insert(@, claim, caller)]]

\* proof_of_existence::Pallet::create_claim
create_claim(poe, caller, claim) ==
    IF claim \in DOMAIN poe.claims
    THEN [res |-> AlreadyClaimed, pallet |-> poe]
    ELSE [res |-> Ok, pallet |-> [poe EXCEPT !.claims = Insert(@, claim, caller)]]

\* revoke_claim keeping the key of the revoked content, with no owner.
revoke_claim_keeps_key(poe, caller, claim) ==
    IF get_claim(poe, claim) = None
    THEN [res |-> ClaimNotFound, pallet |-> poe]
    ELSE IF get_claim(poe, claim) # caller
         THEN [res |-> NotClaimOwner, pallet |-> poe]
         ELSE [res |-> Ok, pallet |-> [poe EXCEPT !.claims = Insert(@, claim, None)]]

\* revoke_claim without the comparison of the owner to the caller.
revoke_claim_no_owner_check(poe, caller, claim) ==
    IF get_claim(poe, claim) = None
    THEN [res |-> ClaimNotFound, pallet |-> poe]
    ELSE [res |-> Ok, pallet |-> [poe EXCEPT !.claims = Remove(@, claim)]]

\* proof_of_existence::Pallet::revoke_claim
revoke_claim(poe, caller, claim) ==
    IF get_claim(poe, claim) = None
    THEN [res |-> ClaimNotFound, pallet |-> poe]
    ELSE IF get_claim(poe, claim) # caller
         THEN [res |-> NotClaimOwner, pallet |-> poe]
         ELSE [res |-> Ok, pallet |-> [poe EXCEPT !.claims = Remove(@, claim)]]

\* proof_of_existence::Call -> proof_of_existence::Pallet (#[macros::call])
poe_dispatch(poe, caller, call) ==
    IF call.tag = "create_claim"
    THEN create_claim(poe, caller, call.claim)
    ELSE revoke_claim(poe, caller, call.claim)

\* ---------------------------------------------------------------- runtime

\* Runtime::new() built on a system pallet that has already counted a block.
Runtime_new_counted ==
    [system |-> inc_block_number(system_new), balances |-> balances_new, poe |-> poe_new]

\* Runtime::new()
Runtime_new == [system |-> system_new, balances |-> balances_new, poe |-> poe_new]

\* dispatch raising the caller's nonce itself, as the comment above it says.
dispatch_incs_nonce(rt, caller, runtime_call) ==
    IF runtime_call.pallet = "Balances"
    THEN LET r == balances_dispatch(rt.balances, caller, runtime_call.call)
         IN  [res |-> r.res,
              runtime |-> [rt EXCEPT !.balances = r.pallet,
                                     !.system = inc_nonce(@, caller)]]
    ELSE LET r == poe_dispatch(rt.poe, caller, runtime_call.call)
         IN  [res |-> r.res,
              runtime |-> [rt EXCEPT !.poe = r.pallet,
                                     !.system = inc_nonce(@, caller)]]

\* dispatch with the pallet's error dropped instead of propagated.
dispatch_drops_error(rt, caller, runtime_call) ==
    IF runtime_call.pallet = "Balances"
    THEN LET r == balances_dispatch(rt.balances, caller, runtime_call.call)
         IN  [res |-> Ok, runtime |-> [rt EXCEPT !.balances = r.pallet]]
    ELSE LET r == poe_dispatch(rt.poe, caller, runtime_call.call)
         IN  [res |-> Ok, runtime |-> [rt EXCEPT !.poe = r.pallet]]

\* <Runtime as Dispatch>::dispatch: route the call to the pallet it names and
\* hand back that pallet's result.
dispatch(rt, caller, runtime_call) ==
    IF runtime_call.pallet = "Balances"
    THEN LET r == balances_dispatch(rt.balances, caller, runtime_call.call)
         IN  [res |-> r.res, runtime |-> [rt EXCEPT !.balances = r.pallet]]
    ELSE LET r == poe_dispatch(rt.poe, caller, runtime_call.call)
         IN  [res |-> r.res, runtime |-> [rt EXCEPT !.poe = r.pallet]]

\* The report counting the extrinsics from one.
report_one_based(block, i, e) ==
    [block_number |-> block.header.block_number, index |-> i + 1, error |-> e]

\* The eprintln! of execute_block: header number, extrinsic index, error.
report(block, i, e) ==
    [block_number |-> block.header.block_number, index |-> i, error |-> e]

\* What one iteration of the loop of execute_block leaves, d being what
\* dispatch returned: the error is reported, and the iteration recorded.
after_dispatch(acc, block, i, ext, d) ==
    [runtime |-> d.runtime,
     stderr  |-> IF d.res = Ok THEN acc.stderr
                 ELSE Append(acc.stderr, report(block, i, d.res)),
     steps   |-> Append(acc.steps,
                        [index |-> i, caller |-> ext.caller, call |-> ext.call,
                         res |-> d.res, pre |-> acc.runtime, post |-> d.runtime])]

\* The iteration with the nonce raised only when the dispatch succeeds.
extrinsic_step_nonce_on_success(acc, block, i) ==
    LET ext == block.extrinsics[i + 1]
        d   == dispatch(acc.runtime, ext.caller, ext.call)
        out == IF d.res = Ok
               THEN [d EXCEPT !.runtime.system = inc_nonce(@, ext.caller)]
               ELSE d
    IN  after_dispatch(acc, block, i, ext, out)

\* One iteration of the loop of execute_block, on extrinsic number i (from 0):
\* inc_nonce, then dispatch. acc is the Runtime, what was written to stderr,
\* and the record of the iterations made so far.
extrinsic_step(acc, block, i) ==
    LET ext == block.extrinsics[i + 1]
        rt1 == [acc.runtime EXCEPT !.system = inc_nonce(@, ext.caller)]
    IN  after_dispatch(acc, block, i, ext, dispatch(rt1, ext.caller, ext.call))

\* The loop of execute_block leaving at the first extrinsic that fails.
RECURSIVE for_extrinsics_abort(_, _, _)
for_extrinsics_abort(acc, block, i) ==
    IF i >= Len(block.extrinsics) THEN acc
    ELSE LET nxt == extrinsic_step(acc, block, i)
         IN  IF nxt.steps[Len(nxt.steps)].res # Ok THEN nxt
             ELSE for_extrinsics_abort(nxt, block, i + 1)

\* The loop of execute_block taking the extrinsics from the last to the first.
RECURSIVE for_extrinsics_reversed(_, _, _)
for_extrinsics_reversed(acc, block, i) ==
    IF i >= Len(block.extrinsics) THEN acc
    ELSE extrinsic_step(for_extrinsics_reversed(acc, block, i + 1), block, i)

\* The loop of execute_block stopping one extrinsic short of the end.
RECURSIVE for_extrinsics_skips_last(_, _, _)
for_extrinsics_skips_last(acc, block, i) ==
    IF i >= Len(block.extrinsics) - 1 THEN acc
    ELSE for_extrinsics_skips_last(extrinsic_step(acc, block, i), block, i + 1)

\* The for loop of execute_block, from extrinsic number i on.
RECURSIVE for_extrinsics(_, _, _)
for_extrinsics(acc, block, i) ==
    IF i >= Len(block.extrinsics) THEN acc
    ELSE for_extrinsics(extrinsic_step(acc, block, i), block, i + 1)

InvalidBlockNumber == "Block number does not match what is expected"

\* execute_block with the header compared only after the loop has run.
execute_block_check_after_loop(rt, block) ==
    LET rt1 == [rt EXCEPT !.system = inc_block_number(@)]
        acc == for_extrinsics([runtime |-> rt1, stderr |-> << >>, steps |-> << >>],
                              block, 0)
    IN  IF block_number(rt1.system) # block.header.block_number
        THEN [res |-> InvalidBlockNumber, runtime |-> acc.runtime,
              stderr |-> acc.stderr, steps |-> acc.steps]
        ELSE [res |-> Ok, runtime |-> acc.runtime,
              stderr |-> acc.stderr, steps |-> acc.steps]

\* execute_block with the block number put back when the block is rejected.
execute_block_rollback(rt, block) ==
    LET rt1 == [rt EXCEPT !.system = inc_block_number(@)]
    IN  IF block_number(rt1.system) # block.header.block_number
        THEN [res |-> InvalidBlockNumber, runtime |-> rt,
              stderr |-> << >>, steps |-> << >>]
        ELSE LET acc == for_extrinsics(
                            [runtime |-> rt1, stderr |-> << >>, steps |-> << >>],
                            block, 0)
             IN  [res |-> Ok, runtime |-> acc.runtime,
                  stderr |-> acc.stderr, steps |-> acc.steps]

\* execute_block with the header compared to the block number before the increment.
execute_block_check_before_inc(rt, block) ==
    LET rt1 == [rt EXCEPT !.system = inc_block_number(@)]
    IN  IF block_number(rt.system) # block.header.block_number
        THEN [res |-> InvalidBlockNumber, runtime |-> rt1,
              stderr |-> << >>, steps |-> << >>]
        ELSE LET acc == for_extrinsics(
                            [runtime |-> rt1, stderr |-> << >>, steps |-> << >>],
                            block, 0)
             IN  [res |-> Ok, runtime |-> acc.runtime,
                  stderr |-> acc.stderr, steps |-> acc.steps]

\* Runtime::execute_block
execute_block(rt, block) ==
    LET rt1 == [rt EXCEPT !.system = inc_block_number(@)]
    IN  IF block_number(rt1.system) # block.header.block_number
        THEN [res |-> InvalidBlockNumber, runtime |-> rt1,
              stderr |-> << >>, steps |-> << >>]
        ELSE LET acc == for_extrinsics(
                            [runtime |-> rt1, stderr |-> << >>, steps |-> << >>],
                            block, 0)
             IN  [res |-> Ok, runtime |-> acc.runtime,
                  stderr |-> acc.stderr, steps |-> acc.steps]

\* ---------------------------------------------------------------- inputs

\* RuntimeCall
BalancesCalls ==
    {[pallet |-> "Balances", call |-> [tag |-> "transfer", to |-> t, amount |-> a]] :
        t \in Accounts, a \in Amounts}

PoeCalls ==
    {[pallet |-> "ProofOfExistence", call |-> [tag |-> g, claim |-> c]] :
        g \in {"create_claim", "revoke_claim"}, c \in Contents}

RuntimeCall == BalancesCalls \cup PoeCalls

\* RuntimeCall::ProofOfExistence(Call::create_claim { claim })
CreateClaimCall(claim) ==
    [pallet |-> "ProofOfExistence", call |-> [tag |-> "create_claim", claim |-> claim]]

\* support::Extrinsic
Extrinsic == [caller : Accounts, call : RuntimeCall]

\* The extrinsic lists of length at most n
ExtrinsicLists(n) == UNION {[1..k -> Extrinsic] : k \in 0..n}

\* support::Block with at most n extrinsics and a header number in labels
Blocks(n, labels) ==
    {[header |-> [block_number |-> h], extrinsics |-> es] :
        h \in labels, es \in ExtrinsicLists(n)}

\* support::Header: the block numbers a submitted header carries
Labels == {1, 2}

NoBlock == [header |-> [block_number |-> 0], extrinsics |-> << >>]

\* ---------------------------------------------------------------- state

\* The accounts the extrinsics of a block name, as caller or as receiver.
Named(block) ==
    {block.extrinsics[i].caller : i \in 1..Len(block.extrinsics)} \cup
    {block.extrinsics[i].call.call.to :
        i \in {j \in 1..Len(block.extrinsics) :
                  block.extrinsics[j].call.pallet = "Balances"}}

\* The calls among steps that created a claim on content k, by position.
Creations(steps, k) ==
    {i \in 1..Len(steps) :
        /\ steps[i].call.pallet = "ProofOfExistence"
        /\ steps[i].call.call.tag = "create_claim"
        /\ steps[i].call.call.claim = k
        /\ steps[i].res = Ok}

\* Who last created a claim on each content, old holding it before these steps.
Creators(old, steps) ==
    [k \in Contents |->
        IF Creations(steps, k) = {} THEN old[k]
        ELSE steps[CHOOSE i \in Creations(steps, k) :
                       \A j \in Creations(steps, k) : j <= i].caller]

VARIABLES
    runtime,   \* the Runtime: system, balances and poe pallets
    stderr,    \* the error reports the last execute_block wrote
    last,      \* the last call made: its block, its result, the Runtime before
               \* it, and each pallet call it made with the Runtime before and after
    count      \* what has been done so far, see Init

vars == <<runtime, stderr, last, count>>

Init ==
    /\ runtime = Runtime_new
    /\ stderr = << >>
    /\ count = [calls      |-> 0,   \* calls of execute_block
                accepted   |-> 0,   \* those that returned Ok
                submitted  |-> 0,   \* extrinsics of all blocks submitted
                extrinsics |-> 0,   \* extrinsics of the accepted blocks
                seeded     |-> 0,   \* sum of the balances set_balance left
                touched    |-> {},  \* accounts set_balance or an applied extrinsic named
                creator    |-> [k \in Contents |-> None]]
                                    \* who last created a claim on each content
    /\ last = [op |-> "new", block |-> NoBlock, res |-> Ok, pre |-> Runtime_new,
               pre_count |-> count, steps |-> << >>]

\* main: runtime.balances.set_balance(who, amount), before the first block
SetBalance(who, amount) ==
    /\ count.calls = 0
    /\ runtime' = [runtime EXCEPT !.balances = set_balance(@, who, amount)]
    /\ stderr' = stderr
    /\ last' = [op |-> "set_balance", block |-> NoBlock, res |-> Ok, pre |-> runtime,
                pre_count |-> count, steps |-> << >>]
    /\ count' = [count EXCEPT
                   !.seeded = @ - balance(runtime.balances, who) + amount,
                   !.touched = @ \cup {who}]

\* test::basic_proof_of_existence: poe.create_claim(caller, claim) called on the
\* pallet itself, before the first block
CreateClaim(caller, claim) ==
    /\ count.calls = 0
    /\ \E r \in {create_claim(runtime.poe, caller, claim)} :
           /\ runtime' = [runtime EXCEPT !.poe = r.pallet]
           /\ stderr' = stderr
           /\ last' = [op |-> "create_claim", block |-> NoBlock, res |-> r.res,
                       pre |-> runtime, pre_count |-> count,
                       steps |-> << [index |-> 0, caller |-> caller,
                                     call |-> CreateClaimCall(claim), res |-> r.res,
                                     pre |-> runtime, post |-> runtime'] >>]
           /\ count' = [count EXCEPT !.creator = Creators(@, last'.steps)]

\* main: runtime.execute_block(block)
ExecuteBlock(block) ==
    /\ count.calls < MaxBlocks
    /\ count.submitted + Len(block.extrinsics) <= MaxExtrinsics
    /\ \E r \in {execute_block(runtime, block)} :
           /\ runtime' = r.runtime
           /\ stderr' = r.stderr
           /\ last' = [op |-> "execute_block", block |-> block, res |-> r.res,
                       pre |-> runtime, pre_count |-> count, steps |-> r.steps]
           /\ count' = [count EXCEPT
                          !.calls = @ + 1,
                          !.accepted = IF r.res = Ok THEN @ + 1 ELSE @,
                          !.submitted = @ + Len(block.extrinsics),
                          !.extrinsics = IF r.res = Ok THEN @ + Len(block.extrinsics)
                                         ELSE @,
                          !.touched = IF r.res = Ok THEN @ \cup Named(block) ELSE @,
                          !.creator = Creators(@, r.steps)]

\* The blocks a caller may still submit within the bounds
Submittable ==
    IF count.calls < MaxBlocks
    THEN Blocks(MaxExtrinsics - count.submitted, Labels)
    ELSE {}

Next ==
    \/ \E who \in Accounts, amount \in Seeds : SetBalance(who, amount)
    \/ \E caller \in Accounts, claim \in Contents : CreateClaim(caller, claim)
    \/ \E block \in Submittable : ExecuteBlock(block)

Spec == Init /\ [][Next]_vars

\* ---------------------------------------------------------------- properties

\* The last call was execute_block; it returned Ok; it returned the fatal error.
BlockCall == last.op = "execute_block"
AcceptedCall == BlockCall /\ last.res = Ok
RejectedCall == BlockCall /\ last.res = InvalidBlockNumber

\* The number in the header of the last block, and the block number before the call.
HeaderNumber == last.block.header.block_number
PreviousNumber == block_number(last.pre.system)

\* The iterations the loop of the last execute_block made (or the one call made
\* on the pallet itself).
StepIndexes == 1..Len(last.steps)
Steps == {last.steps[i] : i \in StepIndexes}

\* C1: a block whose header number is not the previous block number + 1 gets the
\* fatal block-number error and none of its extrinsics is applied: nonces, balances
\* and claims are as before the call, and only the block number has changed.
RejectedBlockAppliesNothing ==
    (BlockCall /\ HeaderNumber # PreviousNumber + 1) =>
        /\ last.res = InvalidBlockNumber
        /\ runtime.system.nonce = last.pre.system.nonce
        /\ runtime.balances = last.pre.balances
        /\ runtime.poe = last.pre.poe
        /\ block_number(runtime.system) # PreviousNumber
        /\ runtime = [last.pre EXCEPT !.system.block_number = @ + 1]

\* A rejected block of two extrinsics the first of which, a create_claim of
\* unclaimed content, would have changed the claims had it been applied.
RejectedBlockWitness ==
    /\ RejectedCall
    /\ Len(last.block.extrinsics) = 2
    /\ last.block.extrinsics[1].call.pallet = "ProofOfExistence"
    /\ last.block.extrinsics[1].call.call.tag = "create_claim"
    /\ get_claim(last.pre.poe, last.block.extrinsics[1].call.call.claim) = None

\* C2: every execute_block, accepted or rejected, raises the block number by
\* exactly 1; it returns Ok exactly when the header number is the previous block
\* number + 1; the block number is the number of execute_block calls made and no
\* call lowers it.
BlockNumberCountsCalls ==
    /\ block_number(runtime.system) = count.calls
    /\ block_number(runtime.system) >= PreviousNumber
    /\ BlockCall =>
        /\ block_number(runtime.system) = PreviousNumber + 1
        /\ (last.res = Ok) <=> (HeaderNumber = PreviousNumber + 1)
        /\ last.res \in {Ok, InvalidBlockNumber}

\* An accepted call followed by a rejected one: the block number is 2.
BlockNumberWitness ==
    /\ RejectedCall
    /\ count.calls = 2
    /\ count.accepted = 1
    /\ block_number(runtime.system) = 2

\* The Runtime the loop of the last accepted block started from.
LoopStart == [last.pre EXCEPT !.system = inc_block_number(@)]

\* The Runtime the loop of the last accepted block ended with.
LoopEnd == IF last.steps = << >> THEN LoopStart ELSE last.steps[Len(last.steps)].post

\* C3: in an accepted block a failing extrinsic neither aborts nor rolls back the
\* block: the loop runs over every extrinsic, each is dispatched on the state the
\* one before it left (so what earlier extrinsics did is kept), the state the
\* last one leaves is the Runtime's, and execute_block returns Ok whatever fails.
FailureDoesNotAbortBlock ==
    (BlockCall /\ HeaderNumber = PreviousNumber + 1) =>
        /\ last.res = Ok
        /\ Len(last.steps) = Len(last.block.extrinsics)
        /\ \A i \in StepIndexes :
            /\ last.steps[i].caller = last.block.extrinsics[i].caller
            /\ last.steps[i].call = last.block.extrinsics[i].call
            /\ last.steps[i].pre = IF i = 1 THEN LoopStart ELSE last.steps[i - 1].post
            /\ last.steps[i].post =
                 dispatch([last.steps[i].pre EXCEPT
                              !.system = inc_nonce(@, last.steps[i].caller)],
                          last.steps[i].caller, last.steps[i].call).runtime
            /\ last.steps[i].res # Ok =>
                 last.steps[i].post =
                    [last.steps[i].pre EXCEPT
                        !.system = inc_nonce(@, last.steps[i].caller)]
        /\ runtime = LoopEnd

\* An accepted block whose first extrinsic fails and whose second succeeds and
\* changes the balances or the claims.
FailureThenSuccessWitness ==
    /\ AcceptedCall
    /\ Len(last.steps) = 2
    /\ last.steps[1].res # Ok
    /\ last.steps[2].res = Ok
    /\ \/ runtime.balances # last.pre.balances
       \/ runtime.poe # last.pre.poe

\* The number of extrinsics of the last block whose caller is a.
ExtrinsicsOf(a) ==
    Cardinality({i \in 1..Len(last.block.extrinsics) :
                    last.block.extrinsics[i].caller = a})

\* The sum of f over the set S.
RECURSIVE Sum(_, _)
Sum(f(_), S) ==
    IF S = {} THEN 0
    ELSE LET x == CHOOSE y \in S : TRUE IN f(x) + Sum(f, S \ {x})

NonceOf(a) == nonce(runtime.system, a)

\* C4: an accepted block raises nonce(a) by the number of its extrinsics whose
\* caller is a, whether they succeed or fail; no call lowers a nonce; and the
\* nonces sum to the number of extrinsics of the accepted blocks.
NonceCountsExtrinsics ==
    /\ AcceptedCall =>
         \A a \in Accounts :
            nonce(runtime.system, a) = nonce(last.pre.system, a) + ExtrinsicsOf(a)
    /\ \A a \in Accounts : nonce(runtime.system, a) >= nonce(last.pre.system, a)
    /\ Sum(NonceOf, Accounts) = count.extrinsics

\* An accepted block with two extrinsics of one caller, one failing, one succeeding.
NonceWitness ==
    /\ AcceptedCall
    /\ Len(last.steps) = 2
    /\ last.steps[1].caller = last.steps[2].caller
    /\ last.steps[1].res # Ok
    /\ last.steps[2].res = Ok
    /\ nonce(runtime.system, last.steps[1].caller) = 2

\* C5: on a fresh Runtime the block labelled 1 is accepted and the block number
\* becomes 1, a second block labelled 1 is then rejected; once a block has been
\* rejected and the block number is n, a block labelled n is rejected, the one
\* label accepted is n + 1, and a block labelled (accepted blocks + 1) is rejected.
BlockSequencing ==
    BlockCall =>
        /\ (PreviousNumber = 0 /\ HeaderNumber = 1) =>
              (last.res = Ok /\ block_number(runtime.system) = 1)
        /\ (PreviousNumber = 1 /\ last.pre_count.accepted = 1 /\ HeaderNumber = 1) =>
              last.res = InvalidBlockNumber
        /\ (last.pre_count.calls > last.pre_count.accepted) =>
              /\ HeaderNumber = PreviousNumber => last.res = InvalidBlockNumber
              /\ last.res = Ok => HeaderNumber = PreviousNumber + 1
              /\ HeaderNumber = PreviousNumber + 1 => last.res = Ok
              /\ HeaderNumber = last.pre_count.accepted + 1 =>
                    last.res = InvalidBlockNumber

\* A block was rejected, and the next block, labelled (accepted blocks + 1), is
\* rejected as well.
ShiftedNumberingWitness ==
    /\ RejectedCall
    /\ last.pre_count.calls > last.pre_count.accepted
    /\ HeaderNumber = last.pre_count.accepted + 1

\* The iterations of the last block that dispatched a transfer, a create_claim,
\* a revoke_claim.
TransferSteps == {s \in Steps : s.call.pallet = "Balances"}
CreateSteps ==
    {s \in Steps : s.call.pallet = "ProofOfExistence" /\ s.call.call.tag = "create_claim"}
RevokeSteps ==
    {s \in Steps : s.call.pallet = "ProofOfExistence" /\ s.call.call.tag = "revoke_claim"}

\* The sum of all balances of a balances pallet.
TotalBalance(bal) ==
    LET BalanceOf(a) == balance(bal, a) IN Sum(BalanceOf, Accounts)

\* C6: the balances sum to what set_balance seeded, whatever transfers the
\* blocks carried; and a successful transfer from c to another account t takes
\* exactly the amount from c, gives exactly the amount to t, and changes no
\* other balance.
SupplyConserved ==
    /\ TotalBalance(runtime.balances) = count.seeded
    /\ \A s \in TransferSteps :
         (s.res = Ok /\ s.caller # s.call.call.to) =>
            /\ balance(s.post.balances, s.caller) =
                  balance(s.pre.balances, s.caller) - s.call.call.amount
            /\ balance(s.post.balances, s.call.call.to) =
                  balance(s.pre.balances, s.call.call.to) + s.call.call.amount
            /\ \A a \in Accounts \ {s.caller, s.call.call.to} :
                  balance(s.post.balances, a) = balance(s.pre.balances, a)

\* An accepted block with a successful transfer of more than 1 to another account and
\* a failing transfer.
SupplyWitness ==
    /\ AcceptedCall
    /\ count.seeded > 0
    /\ \E s \in TransferSteps :
         s.res = Ok /\ s.caller # s.call.call.to /\ s.call.call.amount > 1
    /\ \E s \in TransferSteps : s.res # Ok

\* C7: a transfer of more than the caller's balance fails with
\* InsufficientBalance and leaves every balance as it was.
InsufficientBalanceRejected ==
    \A s \in TransferSteps :
        balance(s.pre.balances, s.caller) < s.call.call.amount =>
            /\ s.res = InsufficientBalance
            /\ s.post.balances = s.pre.balances
            /\ \A a \in Accounts :
                  balance(s.post.balances, a) = balance(s.pre.balances, a)

\* A transfer to another account of more than the caller holds, the caller
\* holding something.
InsufficientBalanceWitness ==
    \E s \in TransferSteps :
        /\ balance(s.pre.balances, s.caller) < s.call.call.amount
        /\ balance(s.pre.balances, s.caller) > 0
        /\ s.caller # s.call.call.to
        /\ s.res = InsufficientBalance

\* C8: a transfer to the caller itself succeeds when the caller's balance
\* covers the amount, and then leaves the caller's balance, and the sum of all
\* balances, as they were; it fails with InsufficientBalance otherwise.
SelfTransferCancels ==
    \A s \in TransferSteps :
        s.caller = s.call.call.to =>
            IF balance(s.pre.balances, s.caller) >= s.call.call.amount
            THEN /\ s.res = Ok
                 /\ balance(s.post.balances, s.caller) = balance(s.pre.balances, s.caller)
                 /\ TotalBalance(s.post.balances) = TotalBalance(s.pre.balances)
            ELSE s.res = InsufficientBalance

\* A successful transfer to the caller itself, the caller holding the largest
\* balance there is.
SelfTransferWitness ==
    \E s \in TransferSteps :
        /\ s.caller = s.call.call.to
        /\ balance(s.pre.balances, s.caller) = BalanceMax
        /\ s.res = Ok

\* What create_claim(caller, claim) did, going from the pallet pre to post with
\* the result res, is what C9 states.
CreateClaimContract(pre, post, res, caller, claim) ==
    IF get_claim(pre, claim) # None
    THEN /\ res = AlreadyClaimed
         /\ get_claim(post, claim) = get_claim(pre, claim)
         /\ post = pre
    ELSE /\ res = Ok
         /\ get_claim(post, claim) = caller

\* C9: create_claim fails with AlreadyClaimed whenever the content has an
\* owner, the caller itself included, and leaves the owner as it was; when the
\* content has no owner it succeeds and the caller becomes the owner.
CreateClaimChecksOwner ==
    /\ \A s \in CreateSteps :
         CreateClaimContract(s.pre.poe, s.post.poe, s.res, s.caller, s.call.call.claim)
    /\ last.op = "create_claim" =>
         (CreateSteps # {} /\ last.steps[1].post = runtime /\ last.steps[1].res = last.res)

\* A create_claim by the account that already owns the content, which fails.
CreateClaimWitness ==
    \E s \in CreateSteps :
        /\ get_claim(s.pre.poe, s.call.call.claim) = s.caller
        /\ s.res = AlreadyClaimed
        /\ get_claim(runtime.poe, s.call.call.claim) = s.caller

\* C10: revoke_claim fails with ClaimNotFound when the content has no owner and
\* with NotClaimOwner when another account owns it, leaving the claims as they
\* were; it succeeds only for the owner, and the content then has no owner.
RevokeClaimChecksOwner ==
    \A s \in RevokeSteps :
        LET owner == get_claim(s.pre.poe, s.call.call.claim)
        IN  /\ owner = None => (s.res = ClaimNotFound /\ s.post.poe = s.pre.poe)
            /\ (owner # None /\ owner # s.caller) =>
                  /\ s.res = NotClaimOwner
                  /\ s.post.poe = s.pre.poe
                  /\ get_claim(s.post.poe, s.call.call.claim) = owner
            /\ s.res = Ok <=> owner = s.caller
            /\ s.res = Ok => get_claim(s.post.poe, s.call.call.claim) = None

\* A revoke_claim by an account that does not own the content, which another owns.
RevokeClaimWitness ==
    \E s \in RevokeSteps :
        /\ get_claim(s.pre.poe, s.call.call.claim) \notin {None, s.caller}
        /\ s.res = NotClaimOwner
        /\ get_claim(runtime.poe, s.call.call.claim) = get_claim(s.pre.poe, s.call.call.claim)

\* The pairs of calls the last block made one right after the other.
StepPairs == {i \in StepIndexes : i + 1 \in StepIndexes}

\* Step s is a create_claim, a revoke_claim, on content k.
IsCreate(s, k) ==
    /\ s.call.pallet = "ProofOfExistence"
    /\ s.call.call.tag = "create_claim"
    /\ s.call.call.claim = k
IsRevoke(s, k) ==
    /\ s.call.pallet = "ProofOfExistence"
    /\ s.call.call.tag = "revoke_claim"
    /\ s.call.call.claim = k

\* C11: once create_claim(a, k) has succeeded, a create_claim(b, k) that follows
\* fails and a stays the owner of k; once revoke_claim(a, k) has succeeded, k has
\* no owner, a create_claim(b, k) that follows succeeds and makes b the owner,
\* and so would a create_claim by any account.
ClaimLifecycle ==
    \A k \in Contents :
        /\ \A s \in Steps :
            /\ (IsCreate(s, k) /\ s.res = Ok) => get_claim(s.post.poe, k) = s.caller
            /\ (IsRevoke(s, k) /\ s.res = Ok) =>
                  /\ get_claim(s.post.poe, k) = None
                  /\ \A b \in Accounts :
                        /\ create_claim(s.post.poe, b, k).res = Ok
                        /\ get_claim(create_claim(s.post.poe, b, k).pallet, k) = b
        /\ \A i \in StepPairs :
            LET s1 == last.steps[i]
                s2 == last.steps[i + 1]
            IN  /\ (IsCreate(s1, k) /\ s1.res = Ok /\ IsCreate(s2, k)) =>
                      /\ s2.res = AlreadyClaimed
                      /\ get_claim(s2.post.poe, k) = s1.caller
                /\ (IsRevoke(s1, k) /\ s1.res = Ok /\ IsCreate(s2, k)) =>
                      /\ s2.res = Ok
                      /\ get_claim(s2.post.poe, k) = s2.caller

\* The block of main's block_3 kind: the owner revokes its claim and another
\* account then creates it, and is the owner afterwards.
ClaimLifecycleWitness ==
    \E k \in Contents :
        /\ AcceptedCall
        /\ Len(last.steps) = 2
        /\ get_claim(last.pre.poe, k) = last.steps[1].caller
        /\ IsRevoke(last.steps[1], k) /\ last.steps[1].res = Ok
        /\ IsCreate(last.steps[2], k) /\ last.steps[2].res = Ok
        /\ last.steps[2].caller # last.steps[1].caller
        /\ get_claim(runtime.poe, k) = last.steps[2].caller

\* The Runtime that dispatch was called on in step s of a block: the one the
\* step began with, the caller's nonce raised.
AtDispatch(s) == [s.pre EXCEPT !.system = inc_nonce(@, s.caller)]

Transfer(to, amount) ==
    [pallet |-> "Balances", call |-> [tag |-> "transfer", to |-> to, amount |-> amount]]
RevokeClaimCall(claim) ==
    [pallet |-> "ProofOfExistence", call |-> [tag |-> "revoke_claim", claim |-> claim]]

Block1Extrinsics ==
    << [caller |-> "alice", call |-> Transfer("bob", 30)],
       [caller |-> "alice", call |-> Transfer("charlie", 50)] >>
Block2Extrinsics ==
    << [caller |-> "alice", call |-> CreateClaimCall("Hello, world!")],
       [caller |-> "bob", call |-> RevokeClaimCall("Hello, world!")] >>
Block3Extrinsics ==
    << [caller |-> "alice", call |-> RevokeClaimCall("Hello, world!")],
       [caller |-> "bob", call |-> CreateClaimCall("Hello, world!")] >>

\* types::Block of main, with header number h
MainBlock(h, es) == [header |-> [block_number |-> h], extrinsics |-> es]

\* main calls execute_block three times
MainCalls == 3

\* main: runtime.balances.set_balance(&"alice".to_string(), 100)
MainSetBalance == SetBalance("alice", 100)

\* main: runtime.execute_block(block), for one of main's three extrinsic lists
\* under any of the header numbers, in any order
MainExecuteBlock(block) ==
    /\ count.calls < MainCalls
    /\ \E r \in {execute_block(runtime, block)} :
           /\ runtime' = r.runtime
           /\ stderr' = r.stderr
           /\ last' = [op |-> "execute_block", block |-> block, res |-> r.res,
                       pre |-> runtime, pre_count |-> count, steps |-> r.steps]
           /\ count' = [count EXCEPT
                          !.calls = @ + 1,
                          !.accepted = IF r.res = Ok THEN @ + 1 ELSE @,
                          !.submitted = @ + Len(block.extrinsics),
                          !.extrinsics = IF r.res = Ok THEN @ + Len(block.extrinsics)
                                         ELSE @,
                          !.touched = IF r.res = Ok THEN @ \cup Named(block) ELSE @,
                          !.creator = Creators(@, r.steps)]

MainNext ==
    \/ MainSetBalance
    \/ \E h \in 1..MainCalls,
          es \in {Block1Extrinsics, Block2Extrinsics, Block3Extrinsics} :
            MainExecuteBlock(MainBlock(h, es))

MainSpec == Init /\ [][MainNext]_vars

\* The Runtime of main before its first block, and after block_1.
Genesis == [Runtime_new EXCEPT !.balances = set_balance(@, "alice", 100)]
AfterBlock1 == execute_block(Genesis, MainBlock(1, Block1Extrinsics)).runtime

\* C13: on the fresh Runtime with balance(alice) = 100, block #1 with [alice
\* transfers 30 to bob, alice transfers 50 to charlie] is accepted and leaves
\* balance(alice) = 20, balance(bob) = 30, balance(charlie) = 50, nonce(alice) = 2
\* and the block number 1.
TransferScenario ==
    (BlockCall /\ last.pre = Genesis /\ last.block = MainBlock(1, Block1Extrinsics)) =>
        /\ last.res = Ok
        /\ stderr = << >>
        /\ balance(runtime.balances, "alice") = 20
        /\ balance(runtime.balances, "bob") = 30
        /\ balance(runtime.balances, "charlie") = 50
        /\ nonce(runtime.system, "alice") = 2
        /\ block_number(runtime.system) = 1

\* main's block_1 has been executed on main's seeded Runtime.
TransferScenarioWitness ==
    /\ BlockCall
    /\ last.pre = Genesis
    /\ last.block = MainBlock(1, Block1Extrinsics)
    /\ count.seeded = 100
    /\ Len(last.steps) = 2

\* C14: after block #1, block #2 with [alice creates the claim "Hello, world!",
\* bob revokes it] is accepted; the create succeeds, the revoke fails with
\* NotClaimOwner, and the claim is still alice's.
ClaimScenario ==
    (BlockCall /\ last.pre = AfterBlock1 /\ last.block = MainBlock(2, Block2Extrinsics)) =>
        /\ last.res = Ok
        /\ Len(last.steps) = 2
        /\ last.steps[1].res = Ok
        /\ last.steps[2].res = NotClaimOwner
        /\ get_claim(runtime.poe, "Hello, world!") = "alice"
        /\ block_number(runtime.system) = 2

\* main's block_2 has been executed after main's block_1.
ClaimScenarioWitness ==
    /\ BlockCall
    /\ last.pre = AfterBlock1
    /\ last.pre_count.accepted = 1
    /\ balance(last.pre.balances, "alice") = 20
    /\ last.block = MainBlock(2, Block2Extrinsics)
    /\ Len(stderr) = 1

\* ---------------------------------------------------------------- overflow

\* The transfer steps whose receiver's balance plus the amount exceeds the
\* maximum of Balance.
OverflowingSteps ==
    {s \in TransferSteps :
        balance(s.pre.balances, s.call.call.to) + s.call.call.amount > BalanceMax}

\* C15 as stated: every transfer whose receiver's balance plus the amount
\* exceeds the maximum of Balance fails with Overflow and mutates no balance.
TransferOverflowAsStated ==
    BlockCall =>
        \A s \in OverflowingSteps :
            /\ s.res = Overflow
            /\ s.post.balances = s.pre.balances

\* C15: a transfer to another account, by a caller with sufficient funds,
\* whose receiver's balance plus the amount exceeds the maximum of Balance
\* fails with Overflow and mutates no balance: the caller is not debited.
TransferOverflowRejected ==
    BlockCall =>
        \A s \in OverflowingSteps :
            (/\ s.call.call.to # s.caller
             /\ balance(s.pre.balances, s.caller) >= s.call.call.amount) =>
                /\ s.res = Overflow
                /\ s.post.balances = s.pre.balances
                /\ balance(s.post.balances, s.caller) = balance(s.pre.balances, s.caller)

\* A funded caller's transfer to an account at the maximum has been refused.
TransferOverflowWitness ==
    /\ AcceptedCall
    /\ \E s \in OverflowingSteps :
           /\ s.call.call.to # s.caller
           /\ balance(s.pre.balances, s.caller) >= s.call.call.amount
           /\ balance(s.pre.balances, s.call.call.to) = BalanceMax
           /\ s.res = Overflow

\* ---------------------------------------------------------------- error text

\* test::basic_proof_of_existence: the value the second create_claim is
\* compared against.
ExpectedAlreadyClaimed == "This content is already claimed."

\* C16: create_claim on content that is already claimed returns exactly the
\* message the test basic_proof_of_existence expects.
CreateClaimErrorAsTested ==
    \A s \in CreateSteps :
        get_claim(s.pre.poe, s.call.call.claim) # None =>
            s.res = ExpectedAlreadyClaimed

\* ---------------------------------------------------------------- zero state

\* C17: Runtime::new() is the zero state (block number 0, every nonce and
\* balance 0, no claim), and at any time an account that no set_balance and no
\* applied extrinsic has named still reads nonce 0 and balance 0.
UntouchedReadZero ==
    /\ last.op = "new" =>
         /\ runtime = Runtime_new
         /\ block_number(runtime.system) = 0
         /\ \A a \in Accounts :
                nonce(runtime.system, a) = 0 /\ balance(runtime.balances, a) = 0
         /\ \A k \in Contents : get_claim(runtime.poe, k) = None
    /\ \A a \in Accounts \ count.touched :
           nonce(runtime.system, a) = 0 /\ balance(runtime.balances, a) = 0

\* A block has been applied that moved one account's nonce and balance and
\* left another account unnamed.
UntouchedWitness ==
    /\ AcceptedCall
    /\ \E a \in count.touched :
           nonce(runtime.system, a) > 0 /\ balance(runtime.balances, a) > 0
    /\ Accounts \ count.touched # {}
    /\ \E s \in Steps : s.res # Ok

\* ---------------------------------------------------------------- order

\* The block of two extrinsics on content k: first, then second.
RevokeThenCreate(a, b, k) ==
    << [caller |-> a, call |-> RevokeClaimCall(k)],
       [caller |-> b, call |-> CreateClaimCall(k)] >>
CreateThenRevoke(a, b, k) ==
    << [caller |-> b, call |-> CreateClaimCall(k)],
       [caller |-> a, call |-> RevokeClaimCall(k)] >>

\* C18: an accepted block applies its extrinsics in index order 0..n-1, each
\* with the caller's nonce already raised when it is dispatched and each on
\* the state the earlier ones left; so with k owned by a, [a revokes k, b
\* creates k] leaves b the owner and [b creates k, a revokes k] leaves k
\* unowned.
AppliedInIndexOrder ==
    AcceptedCall =>
        /\ \A i \in StepIndexes :
               /\ last.steps[i].index = i - 1
               /\ last.steps[i].caller = last.block.extrinsics[i].caller
               /\ last.steps[i].call = last.block.extrinsics[i].call
               /\ last.steps[i].post =
                    dispatch(AtDispatch(last.steps[i]), last.steps[i].caller,
                             last.steps[i].call).runtime
               /\ nonce(last.steps[i].post.system, last.steps[i].caller)
                    = nonce(last.steps[i].pre.system, last.steps[i].caller) + 1
               /\ \A j \in StepIndexes :
                      j = i + 1 => last.steps[j].pre = last.steps[i].post
        /\ \A a, b \in Accounts, k \in Contents :
               (a # b /\ get_claim(last.pre.poe, k) = a) =>
                   /\ last.block.extrinsics = RevokeThenCreate(a, b, k) =>
                          get_claim(runtime.poe, k) = b
                   /\ last.block.extrinsics = CreateThenRevoke(a, b, k) =>
                          get_claim(runtime.poe, k) = None

\* On content alice owns, the block [alice revokes, bob creates] has been
\* applied and both extrinsics succeeded.
IndexOrderWitness ==
    /\ AcceptedCall
    /\ get_claim(last.pre.poe, "Hello, world!") = "alice"
    /\ last.block.extrinsics = RevokeThenCreate("alice", "bob", "Hello, world!")
    /\ \A s \in Steps : s.res = Ok

\* ---------------------------------------------------------------- reports

\* The positions in the block of the extrinsics whose dispatch failed.
FailedIndexes == {i \in StepIndexes : last.steps[i].res # Ok}

\* C19: an accepted block emits one report for each extrinsic whose dispatch
\* failed and none for one that succeeded, in index order, each with the
\* header's block number, the extrinsic's zero-based index and the error
\* dispatch returned; a rejected block emits no report.
OneReportPerFailure ==
    /\ AcceptedCall =>
         /\ Len(stderr) = Cardinality(FailedIndexes)
         /\ \A i \in FailedIndexes :
                Cardinality({n \in 1..Len(stderr) : stderr[n].index = i - 1}) = 1
         /\ \A n \in 1..Len(stderr) :
                /\ stderr[n].index + 1 \in FailedIndexes
                /\ stderr[n].block_number = last.block.header.block_number
                /\ stderr[n].error = last.steps[stderr[n].index + 1].res
                /\ stderr[n].error =
                     dispatch(AtDispatch(last.steps[stderr[n].index + 1]),
                              last.block.extrinsics[stderr[n].index + 1].caller,
                              last.block.extrinsics[stderr[n].index + 1].call).res
                /\ \A m \in 1..Len(stderr) :
                       m < n => stderr[m].index < stderr[n].index
    /\ RejectedCall => stderr = << >>

\* A block whose first extrinsic succeeded and whose second failed has been
\* applied: its one report carries index 1.
ReportWitness ==
    /\ AcceptedCall
    /\ Len(last.steps) = 2
    /\ last.steps[1].res = Ok
    /\ last.steps[2].res # Ok
    /\ Len(stderr) = 1
    /\ stderr[1].index = 1

\* ---------------------------------------------------------------- ownership

\* Step s is a revoke_claim on content k by account a.
RevokeBy(s, a, k) == IsRevoke(s, k) /\ s.caller = a

\* C20: once content k is owned by a, it stays owned by a until a revoke_claim
\* on k with caller a is dispatched in an accepted block: no create_claim or
\* revoke_claim by another account, no transfer, no set_balance and no rejected
\* block changes or removes the owner; and the owner of k is always the caller
\* of the most recent successful create_claim on k.
OwnershipStable ==
    \A k \in Contents :
        /\ \A s \in Steps :
               (/\ get_claim(s.pre.poe, k) # None
                /\ ~RevokeBy(s, get_claim(s.pre.poe, k), k)) =>
                   get_claim(s.post.poe, k) = get_claim(s.pre.poe, k)
        /\ (BlockCall /\ get_claim(last.pre.poe, k) # None
              /\ get_claim(runtime.poe, k) # get_claim(last.pre.poe, k)) =>
               /\ AcceptedCall
               /\ \E s \in Steps :
                      RevokeBy(s, get_claim(last.pre.poe, k), k) /\ s.res = Ok
        /\ RejectedCall => runtime.poe = last.pre.poe
        /\ last.op = "set_balance" => runtime.poe = last.pre.poe
        /\ get_claim(runtime.poe, k) # None =>
               get_claim(runtime.poe, k) = count.creator[k]

\* On content alice owns, a block in which bob's create_claim and bob's
\* revoke_claim were both refused has been applied.
OwnershipWitness ==
    /\ AcceptedCall
    /\ get_claim(last.pre.poe, "Hello, world!") = "alice"
    /\ \E s \in Steps : IsCreate(s, "Hello, world!") /\ s.caller = "bob" /\ s.res # Ok
    /\ \E s \in Steps : IsRevoke(s, "Hello, world!") /\ s.caller = "bob" /\ s.res # Ok
    /\ get_claim(runtime.poe, "Hello, world!") = "alice"

====
